---- MODULE Spec2Model ----
(***************************************************************************)
(* QuantLib ForwardRateAgreement (ql/instruments/forwardrateagreement.cpp) *)
(* as a state machine: one FRA object, the market data it observes (the    *)
(* evaluation date, the discount-curve handle, the index with its          *)
(* forwarding-curve handle and fixing history), its lazily computed        *)
(* results, and the outcome of the last call made on it. The FRA of the     *)
(* other side of the contract can be constructed after it; the model then  *)
(* follows the new object and keeps the answers of the first.              *)
(*                                                                         *)
(* Real numbers are exact rationals <<numerator, denominator>> in lowest   *)
(* terms with a positive denominator.                                      *)
(***************************************************************************)
EXTENDS Integers, FiniteSets, Sequences, TLC

(* ------------------------------ bounds -------------------------------- *)

\* the evaluation date and the dates of a contract range over 1..MaxDate
MaxDate == 3

(* --------------------------- exact rationals -------------------------- *)

Abs(n) == IF n < 0 THEN -n ELSE n

RECURSIVE Gcd(_, _)
Gcd(a, b) == IF b = 0 THEN a ELSE Gcd(b, a % b)

Norm(q) ==
    LET g == Gcd(Abs(q[1]), Abs(q[2]))
        s == IF q[2] < 0 THEN -1 ELSE 1
    IN  <<(s * q[1]) \div g, (s * q[2]) \div g>>

RInt(n)    == <<n, 1>>
RAdd(a, b) == Norm(<<a[1] * b[2] + b[1] * a[2], a[2] * b[2]>>)
RSub(a, b) == Norm(<<a[1] * b[2] - b[1] * a[2], a[2] * b[2]>>)
RMul(a, b) == Norm(<<a[1] * b[1], a[2] * b[2]>>)
RDiv(a, b) == Norm(<<a[1] * b[2], a[2] * b[1]>>)

Zero == RInt(0)
One  == RInt(1)
\* Null<Real>(): the "no value" marker of a Real
Null == <<0, 0>>

(* ------------------- collaborators (interfaces only) ------------------ *)

\* a handle is empty or links to one of the curves
Empty == 0
CurveIds == {1, 2}
Handles == {Empty} \cup CurveIds
Dates == 1..MaxDate

\* Calendar::adjust
RECURSIVE Adjust(_, _, _)
Adjust(cal, d, c) ==
    IF c = "Unadjusted" \/ d \notin cal THEN d
    ELSE IF c = "Following" THEN Adjust(cal, d + 1, c)
    ELSE Adjust(cal, d - 1, c)

\* Calendar::advance(d, n, Days, c) for n <= 0: n business days backwards
RECURSIVE Advance(_, _, _, _)
Advance(cal, d, n, c) ==
    IF n = 0 THEN Adjust(cal, d, c)
    ELSE IF n = -1 THEN Adjust(cal, d - 1, "Preceding")
    ELSE Advance(cal, Adjust(cal, d - 1, "Preceding"), n + 1, c)

\* DayCounter::yearFraction for the day counter "actual/basis"
yearFraction(basis, d1, d2) == Norm(<<d2 - d1, basis>>)

\* YieldTermStructure::discount(d) of curve c
CurveDen == 10
discount(c, d) == Norm(<<CurveDen, CurveDen + c * d>>)
\* YieldTermStructure::dayCounter(), ::calendar() of the discount curve
CurveBasis == 5
CurveHolidays == {3}

\* the index: dayCounter(), fixingCalendar(), businessDayConvention(),
\* fixingDays(), tenor, and the rate it fixed on date d
IndexBasis == 4
IndexHolidays == {2}
IndexBDC == "Preceding"
IndexFixingDays == 1
IndexTenor == 1
IndexFixingDate(v) == Advance(IndexHolidays, v, -IndexFixingDays, "Following")
IndexMaturityDate(v) == Adjust(IndexHolidays, v + IndexTenor, IndexBDC)
IndexRate(d) == Norm(<<d + 1, 50>>)
\* the index fixes on its business days; no contract fixes on the last date
FixingDates == (0..(MaxDate - 1)) \ IndexHolidays

(* ------------------------------- state -------------------------------- *)

VARIABLES
    fra,              \* the contract terms; fra.built is FALSE before construction
    forwardRate_,     \* cached InterestRate [rate, dc]
    amount_,          \* cached settlement amount
    NPV_,             \* cached NPV
    calculated_,      \* the cache-validity flag
    evaluationDate,   \* Settings::instance().evaluationDate()
    discountCurve,    \* what the discountCurve handle links to
    forwardingCurve,  \* what the index's forwarding handle links to
    fixings,          \* dates for which the index has a fixing
    args,             \* the arguments of the constructor call just made
    lastOp,           \* the last operation
    ok,               \* whether it returned (TRUE) or threw (FALSE)
    ret,              \* what it returned
    calls,            \* discount()/fixing() calls it made
    ran,              \* whether it ran the calculation routine
    other             \* the answers of the run the next query is compared with:
                      \* the FRA of the other side, or this FRA before its
                      \* discount curve was relinked

cache  == <<forwardRate_, amount_, NPV_>>
market == <<evaluationDate, discountCurve, forwardingCurve, fixings>>
obs    == <<lastOp, ok, ret, calls, ran>>
vars   == <<fra, cache, calculated_, market, args, obs, other>>

(* ----------------------------- constructors --------------------------- *)

Positions == {"Long", "Short"}
Notionals == {-1, 0, 2}
Strikes == {<<1, 20>>}
Conventions == {"Following", "Preceding"}
FixingDays == {0, 1}
\* amount_ has no initializer: after construction it holds whatever was there
GarbageAmounts == {RInt(0), RInt(7)}

NoRate == [rate |-> Null, dc |-> 0]
NoFRA ==
    [built |-> FALSE, fraType_ |-> "Long", notionalAmount_ |-> 0, index_ |-> FALSE,
     useIndexedCoupon_ |-> FALSE, dayCounter_ |-> 0, calendar_ |-> {},
     businessDayConvention_ |-> "Unadjusted", valueDate_ |-> 0, maturityDate_ |-> 0,
     strikeForwardRate_ |-> NoRate, fixingDays_ |-> 0]
NoArgs == [ctor |-> "none", valueDate |-> 0, maturityDate |-> 0, notionalAmount |-> 0,
           convention |-> "Unadjusted"]

\* the members as the index constructors leave them (lines 36-42, 50-52)
IndexTerms(valueDate, maturityDate, type, strike, notional, useIndexedCoupon) ==
    [built |-> TRUE, fraType_ |-> type, notionalAmount_ |-> notional,
     index_ |-> TRUE, useIndexedCoupon_ |-> useIndexedCoupon,
     dayCounter_ |-> IndexBasis, calendar_ |-> IndexHolidays,
     businessDayConvention_ |-> IndexBDC, valueDate_ |-> valueDate,
     maturityDate_ |-> Adjust(IndexHolidays, maturityDate, IndexBDC),
     strikeForwardRate_ |-> [rate |-> strike, dc |-> IndexBasis],
     fixingDays_ |-> 0]

\* IndexCtor comparing the dates before the business-day adjustment
IndexCtor_RawDates(valueDate, maturityDate, type, strike, notional, useIndexedCoupon) ==
    [ok  |-> notional > 0 /\ valueDate < maturityDate,
     fra |-> IndexTerms(valueDate, maturityDate, type, strike, notional, useIndexedCoupon)]

\* IndexCtor requiring notionalAmount >= 0.0
IndexCtor_NonNegative(valueDate, maturityDate, type, strike, notional, useIndexedCoupon) ==
    LET t == IndexTerms(valueDate, maturityDate, type, strike, notional, useIndexedCoupon)
    IN  [ok  |-> notional >= 0 /\ t.valueDate_ < t.maturityDate_, fra |-> t]

\* ForwardRateAgreement(valueDate, maturityDate, type, strikeForwardRate,
\*     notionalAmount, index, discountCurve, useIndexedCoupon): ok = it did not throw
IndexCtor(valueDate, maturityDate, type, strike, notional, useIndexedCoupon) ==
    LET t == IndexTerms(valueDate, maturityDate, type, strike, notional, useIndexedCoupon)
    IN  [ok  |-> notional > 0 /\ t.valueDate_ < t.maturityDate_, fra |-> t]

\* ForwardRateAgreement(valueDate, type, strikeForwardRate, notionalAmount, index,
\*     discountCurve, useIndexedCoupon): delegates with index->maturityDate(valueDate)
IndexTenorCtor(valueDate, type, strike, notional, useIndexedCoupon) ==
    IndexCtor(valueDate, IndexMaturityDate(valueDate), type, strike, notional,
              useIndexedCoupon)

\* the members as the curve constructor leaves them (lines 74-78, 85-89)
CurveTerms(valueDate, maturityDate, type, strike, notional, fixingDays, convention) ==
    [built |-> TRUE, fraType_ |-> type, notionalAmount_ |-> notional,
     index_ |-> FALSE, useIndexedCoupon_ |-> FALSE,
     dayCounter_ |-> CurveBasis, calendar_ |-> CurveHolidays,
     businessDayConvention_ |-> convention, valueDate_ |-> valueDate,
     maturityDate_ |-> Adjust(CurveHolidays, maturityDate, convention),
     strikeForwardRate_ |-> [rate |-> strike, dc |-> CurveBasis],
     fixingDays_ |-> fixingDays]

\* CurveCtor taking its day counter and calendar without dereferencing the handle
CurveCtor_NoDeref(valueDate, maturityDate, type, strike, notional, fixingDays, convention) ==
    LET t == CurveTerms(valueDate, maturityDate, type, strike, notional, fixingDays, convention)
    IN  [ok  |-> notional > 0 /\ t.valueDate_ < t.maturityDate_, fra |-> t]

\* ForwardRateAgreement(valueDate, maturityDate, type, strikeForwardRate,
\*     notionalAmount, discountCurve, fixingDays, businessDayConvention);
\* discountCurve->dayCounter() in the member initialisers throws on an empty handle
CurveCtor(valueDate, maturityDate, type, strike, notional, fixingDays, convention) ==
    LET t == CurveTerms(valueDate, maturityDate, type, strike, notional, fixingDays, convention)
    IN  [ok  |-> /\ discountCurve # Empty
                 /\ notional > 0
                 /\ t.valueDate_ < t.maturityDate_,
         fra |-> t]

(* ------------------------------ accessors ----------------------------- *)

\* fixingDate() advancing on the FRA's own calendar whether or not there is an index
fixingDate_NoIndex ==
    Advance(fra.calendar_, fra.valueDate_, -fra.fixingDays_, fra.businessDayConvention_)

\* ForwardRateAgreement::fixingDate
fixingDate ==
    IF fra.index_ THEN IndexFixingDate(fra.valueDate_)
    ELSE Advance(fra.calendar_, fra.valueDate_, -fra.fixingDays_,
                 fra.businessDayConvention_)

\* Event::hasOccurred against the evaluation date
hasOccurred(d) == d <= evaluationDate

\* isExpired() staying true once an expired calculation has zeroed NPV_
isExpired_Latched == hasOccurred(fra.valueDate_) \/ NPV_ = Zero

\* ForwardRateAgreement::isExpired
isExpired == hasOccurred(fra.valueDate_)

\* (P(valueDate) / P(maturityDate) - 1) / yearFraction(valueDate, maturityDate)
ImpliedRate(c, basis) ==
    RDiv(RSub(RDiv(discount(c, fra.valueDate_), discount(c, fra.maturityDate_)), One),
         yearFraction(basis, fra.valueDate_, fra.maturityDate_))

\* calculateForwardRate taking a missing fixing or an empty curve for a zero rate
calculateForwardRate_NoThrow ==
    IF fra.useIndexedCoupon_ /\ fra.index_ THEN
        [ok |-> TRUE, calls |-> 1,
         forwardRate_ |-> [rate |-> IF fixingDate \in fixings THEN IndexRate(fixingDate)
                                    ELSE Zero,
                           dc |-> IndexBasis]]
    ELSE IF ~fra.useIndexedCoupon_ /\ fra.index_ THEN
        [ok |-> TRUE, calls |-> 2,
         forwardRate_ |-> [rate |-> IF forwardingCurve # Empty
                                    THEN ImpliedRate(forwardingCurve, IndexBasis) ELSE Zero,
                           dc |-> IndexBasis]]
    ELSE
        [ok |-> TRUE, calls |-> 2,
         forwardRate_ |-> [rate |-> IF discountCurve # Empty
                                    THEN ImpliedRate(discountCurve, CurveBasis) ELSE Zero,
                           dc |-> CurveBasis]]

\* calculateForwardRate reading the discount curve in the par-coupon branch
calculateForwardRate_DiscountCurve ==
    IF fra.useIndexedCoupon_ /\ fra.index_ THEN
        IF fixingDate \in fixings
        THEN [ok |-> TRUE, calls |-> 1,
              forwardRate_ |-> [rate |-> IndexRate(fixingDate), dc |-> IndexBasis]]
        ELSE [ok |-> FALSE, calls |-> 1, forwardRate_ |-> forwardRate_]
    ELSE
        IF discountCurve # Empty
        THEN [ok |-> TRUE, calls |-> 2,
              forwardRate_ |-> [rate |-> ImpliedRate(discountCurve, CurveBasis),
                                dc |-> CurveBasis]]
        ELSE [ok |-> FALSE, calls |-> 0, forwardRate_ |-> forwardRate_]

\* calculateForwardRate taking the par-coupon rate from the handle NPV discounts
\* with: discountCurve_ unless it is empty
calculateForwardRate_DiscountHandle ==
    IF fra.useIndexedCoupon_ /\ fra.index_ THEN
        IF fixingDate \in fixings
        THEN [ok |-> TRUE, calls |-> 1,
              forwardRate_ |-> [rate |-> IndexRate(fixingDate), dc |-> IndexBasis]]
        ELSE [ok |-> FALSE, calls |-> 1, forwardRate_ |-> forwardRate_]
    ELSE IF ~fra.useIndexedCoupon_ /\ fra.index_ THEN
        IF discountCurve # Empty
        THEN [ok |-> TRUE, calls |-> 2,
              forwardRate_ |-> [rate |-> ImpliedRate(discountCurve, IndexBasis),
                                dc |-> IndexBasis]]
        ELSE IF forwardingCurve # Empty
        THEN [ok |-> TRUE, calls |-> 2,
              forwardRate_ |-> [rate |-> ImpliedRate(forwardingCurve, IndexBasis),
                                dc |-> IndexBasis]]
        ELSE [ok |-> FALSE, calls |-> 0, forwardRate_ |-> forwardRate_]
    ELSE
        IF discountCurve # Empty
        THEN [ok |-> TRUE, calls |-> 2,
              forwardRate_ |-> [rate |-> ImpliedRate(discountCurve, CurveBasis),
                                dc |-> CurveBasis]]
        ELSE [ok |-> FALSE, calls |-> 0, forwardRate_ |-> forwardRate_]

\* ForwardRateAgreement::calculateForwardRate: the outcome (ok = it did not
\* throw), the new forwardRate_ and the discount()/fixing() calls made
calculateForwardRate ==
    IF fra.useIndexedCoupon_ /\ fra.index_ THEN
        IF fixingDate \in fixings
        THEN [ok |-> TRUE, calls |-> 1,
              forwardRate_ |-> [rate |-> IndexRate(fixingDate), dc |-> IndexBasis]]
        ELSE [ok |-> FALSE, calls |-> 1, forwardRate_ |-> forwardRate_]
    ELSE IF ~fra.useIndexedCoupon_ /\ fra.index_ THEN
        IF forwardingCurve # Empty
        THEN [ok |-> TRUE, calls |-> 2,
              forwardRate_ |-> [rate |-> ImpliedRate(forwardingCurve, IndexBasis),
                                dc |-> IndexBasis]]
        ELSE [ok |-> FALSE, calls |-> 0, forwardRate_ |-> forwardRate_]
    ELSE
        IF discountCurve # Empty
        THEN [ok |-> TRUE, calls |-> 2,
              forwardRate_ |-> [rate |-> ImpliedRate(discountCurve, CurveBasis),
                                dc |-> CurveBasis]]
        ELSE [ok |-> FALSE, calls |-> 0, forwardRate_ |-> forwardRate_]

\* notionalAmount_ * sign * (F - K) * T / (1.0 + F * T)
SettlementAmount(fwd) ==
    LET sign == IF fra.fraType_ = "Long" THEN 1 ELSE -1
        F == fwd.rate
        K == fra.strikeForwardRate_.rate
        T == yearFraction(fwd.dc, fra.valueDate_, fra.maturityDate_)
    IN  RDiv(RMul(RMul(RMul(RInt(fra.notionalAmount_), RInt(sign)), RSub(F, K)), T),
             RAdd(One, RMul(F, T)))

\* calculateAmount after calculateForwardRate ended as r
amountFrom(r) ==
    [ok |-> r.ok, calls |-> r.calls, forwardRate_ |-> r.forwardRate_,
     amount_ |-> IF r.ok THEN SettlementAmount(r.forwardRate_) ELSE amount_]

\* ForwardRateAgreement::calculateAmount
calculateAmount == amountFrom(calculateForwardRate)

\* discounting with the index's forwarding curve whatever was supplied
discountHandle_Forwarding == forwardingCurve

\* the handle performCalculations discounts with
discountHandle == IF discountCurve = Empty THEN forwardingCurve ELSE discountCurve

\* performCalculations after calculateAmount ended as a; dereferencing an empty
\* handle throws
npvFrom(a) ==
    IF a.ok /\ discountHandle # Empty THEN
        [ok |-> TRUE, calls |-> a.calls + 1, forwardRate_ |-> a.forwardRate_,
         amount_ |-> a.amount_,
         NPV_ |-> RMul(a.amount_, discount(discountHandle, fra.valueDate_))]
    ELSE
        [ok |-> FALSE, calls |-> a.calls, forwardRate_ |-> a.forwardRate_,
         amount_ |-> a.amount_, NPV_ |-> NPV_]

\* ForwardRateAgreement::performCalculations
performCalculations == npvFrom(calculateAmount)

\* setupExpired after calculateForwardRate ended as r; Instrument::setupExpired
\* has zeroed NPV_ before
expiredFrom(r) ==
    [ok |-> r.ok, calls |-> r.calls, forwardRate_ |-> r.forwardRate_,
     amount_ |-> amount_, NPV_ |-> Zero]

\* setupExpired without the call of calculateForwardRate
setupExpired_NoRate ==
    [ok |-> TRUE, calls |-> 0, forwardRate_ |-> forwardRate_, amount_ |-> amount_,
     NPV_ |-> Zero]

\* setupExpired running the whole of performCalculations before NPV_ is zeroed
setupExpired_Performing == expiredFrom(performCalculations)

\* ForwardRateAgreement::setupExpired
setupExpired == expiredFrom(calculateForwardRate)

\* Instrument::calculate after the calculation it ran ended as r
calculatedFrom(r) ==
    [ok |-> r.ok, calls |-> r.calls, ran |-> TRUE, calculated_ |-> r.ok,
     forwardRate_ |-> r.forwardRate_, amount_ |-> r.amount_, NPV_ |-> r.NPV_]

\* Instrument::calculate
calculate ==
    IF calculated_ THEN
        [ok |-> TRUE, calls |-> 0, ran |-> FALSE, calculated_ |-> TRUE,
         forwardRate_ |-> forwardRate_, amount_ |-> amount_, NPV_ |-> NPV_]
    ELSE IF isExpired THEN calculatedFrom(setupExpired)
    ELSE calculatedFrom(performCalculations)

Real(x) == [val |-> x, dc |-> 0]
NoRet == Real(Null)

\* return amount_
returnAmount(c) == [c |-> c, ret |-> IF c.ok THEN Real(c.amount_) ELSE NoRet]
\* return forwardRate_
returnForwardRate(c) ==
    [c |-> c,
     ret |-> IF c.ok THEN [val |-> c.forwardRate_.rate, dc |-> c.forwardRate_.dc]
             ELSE NoRet]
\* return NPV_
returnNPV(c) == [c |-> c, ret |-> IF c.ok THEN Real(c.NPV_) ELSE NoRet]

\* amount() calling performCalculations() instead of calculate()
amount_NoCache == returnAmount(calculatedFrom(performCalculations))

\* amount() returning amount_ without calling calculate()
amount_NoCalculate ==
    returnAmount([ok |-> TRUE, calls |-> 0, ran |-> FALSE, calculated_ |-> calculated_,
                  forwardRate_ |-> forwardRate_, amount_ |-> amount_, NPV_ |-> NPV_])

\* ForwardRateAgreement::amount
amount == returnAmount(calculate)

\* ForwardRateAgreement::forwardRate
forwardRate == returnForwardRate(calculate)

\* Instrument::NPV
NPV == returnNPV(calculate)

\* the observables the constructors register the FRA with (lines 44-45, 53, 82-83)
registeredWith ==
    IF ~fra.built THEN {}
    ELSE IF fra.index_ THEN {"evaluationDate", "discountCurve", "index"}
    ELSE {"evaluationDate", "discountCurve"}

\* LazyObject::update on a notification from `source`: the new validity flag
update(source) == IF source \in registeredWith THEN FALSE ELSE calculated_

(* ------------------------------- actions ------------------------------ *)

\* no other run is being compared
NoOther == [run |-> "none", amount |-> [ok |-> FALSE, ret |-> NoRet],
            forwardRate |-> [ok |-> FALSE, ret |-> NoRet],
            NPV |-> [ok |-> FALSE, ret |-> NoRet]]

Init ==
    /\ fra = NoFRA
    /\ forwardRate_ = NoRate
    /\ amount_ = Null
    /\ NPV_ = Null
    /\ calculated_ = FALSE
    /\ evaluationDate = 1
    /\ discountCurve = Empty
    /\ forwardingCurve = Empty
    /\ fixings = {}
    /\ args = NoArgs
    /\ lastOp = "init"
    /\ ok = TRUE
    /\ ret = NoRet
    /\ calls = 0
    /\ ran = FALSE
    /\ other = NoOther

Ctors == {"ctorIndex", "ctorIndexTenor", "ctorCurve"}
\* a constructor that threw leaves no object: the behaviour ends there
Failed == lastOp \in Ctors /\ ~ok

\* what a constructor call leaves: the outcome r of its validation and, when it
\* did not throw, a new object with a dirty cache and an amount_ nobody has written
Allocated(r, a) ==
    /\ args' = a
    /\ lastOp' = a.ctor
    /\ ok' = r.ok
    /\ ret' = NoRet
    /\ calls' = 0
    /\ ran' = FALSE
    /\ calculated_' = FALSE
    /\ forwardRate_' = NoRate
    /\ NPV_' = Null
    /\ IF r.ok
       THEN fra' = r.fra /\ amount_' \in GarbageAmounts
       ELSE fra' = NoFRA /\ amount_' = Null
    /\ UNCHANGED market

\* the first constructor call of a behaviour
Constructed(r, a) ==
    /\ ~fra.built /\ ~Failed
    /\ Allocated(r, a)
    /\ other' = NoOther

ConstructWithIndex ==
    \E v \in Dates, m \in Dates, type \in Positions, K \in Strikes, N \in Notionals,
       uic \in BOOLEAN :
        Constructed(IndexCtor(v, m, type, K, N, uic),
                    [ctor |-> "ctorIndex", valueDate |-> v, maturityDate |-> m,
                     notionalAmount |-> N, convention |-> IndexBDC])

ConstructWithIndexTenor ==
    \E v \in Dates, type \in Positions, K \in Strikes, N \in Notionals,
       uic \in BOOLEAN :
        Constructed(IndexTenorCtor(v, type, K, N, uic),
                    [ctor |-> "ctorIndexTenor", valueDate |-> v,
                     maturityDate |-> IndexMaturityDate(v),
                     notionalAmount |-> N, convention |-> IndexBDC])

\* no index exists in a behaviour that constructs the FRA from a curve alone
ConstructWithCurve ==
    /\ forwardingCurve = Empty /\ fixings = {}
    /\ \E v \in Dates, m \in Dates, type \in Positions, K \in Strikes, N \in Notionals,
       fd \in FixingDays, c \in Conventions :
        Constructed(CurveCtor(v, m, type, K, N, fd, c),
                    [ctor |-> "ctorCurve", valueDate |-> v, maturityDate |-> m,
                     notionalAmount |-> N, convention |-> c])

Opposite(type) == IF type = "Long" THEN "Short" ELSE "Long"

\* the constructor call just made, repeated with the other position
CounterpartyCtor ==
    IF lastOp = "ctorIndex" THEN
        IndexCtor(args.valueDate, args.maturityDate, Opposite(fra.fraType_),
                  fra.strikeForwardRate_.rate, args.notionalAmount, fra.useIndexedCoupon_)
    ELSE IF lastOp = "ctorIndexTenor" THEN
        IndexTenorCtor(args.valueDate, Opposite(fra.fraType_),
                       fra.strikeForwardRate_.rate, args.notionalAmount,
                       fra.useIndexedCoupon_)
    ELSE
        CurveCtor(args.valueDate, args.maturityDate, Opposite(fra.fraType_),
                  fra.strikeForwardRate_.rate, args.notionalAmount, fra.fixingDays_,
                  args.convention)

\* what amount(), forwardRate() and NPV() return on the FRA as it is now
Answers(run, a, f, n) ==
    [run |-> run, amount |-> [ok |-> a.c.ok, ret |-> a.ret],
     forwardRate |-> [ok |-> f.c.ok, ret |-> f.ret],
     NPV |-> [ok |-> n.c.ok, ret |-> n.ret]]

\* right after an FRA was constructed, the FRA of the other side of the contract is
\* constructed from the same arguments on the same market; the first FRA is kept
\* for its answers, and the calls that follow are made on the new object
ConstructCounterparty ==
    /\ fra.built /\ lastOp \in Ctors /\ other.run = "none"
    /\ Allocated(CounterpartyCtor, args)
    /\ other' = Answers("counterparty", amount, forwardRate, NPV)

\* what a call of amount(), forwardRate() or NPV() does
Queried(name, r) ==
    /\ fra.built
    /\ lastOp' = name
    /\ ok' = r.c.ok
    /\ ret' = r.ret
    /\ calls' = r.c.calls
    /\ ran' = r.c.ran
    /\ calculated_' = r.c.calculated_
    /\ forwardRate_' = r.c.forwardRate_
    /\ amount_' = r.c.amount_
    /\ NPV_' = r.c.NPV_
    /\ args' = NoArgs
    /\ other' = NoOther
    /\ UNCHANGED <<fra, market>>

CallAmount == Queried("amount", amount)
CallForwardRate == Queried("forwardRate", forwardRate)
CallNPV == Queried("NPV", NPV)

\* what calculate() leaves in the cache
Stored(c) ==
    /\ calculated_' = c.calculated_
    /\ forwardRate_' = c.forwardRate_
    /\ amount_' = c.amount_
    /\ NPV_' = c.NPV_

\* fixingDate() and isExpired() calling calculate() first, as the other accessors do
Inspected_Calculating(name, value) ==
    /\ fra.built
    /\ lastOp' = name
    /\ ok' = TRUE
    /\ ret' = value
    /\ calls' = 0
    /\ ran' = FALSE
    /\ args' = NoArgs
    /\ other' = NoOther
    /\ Stored(calculate)
    /\ UNCHANGED <<fra, market>>

\* a const accessor without calculate()
Inspected(name, value) ==
    /\ fra.built
    /\ lastOp' = name
    /\ ok' = TRUE
    /\ ret' = value
    /\ calls' = 0
    /\ ran' = FALSE
    /\ args' = NoArgs
    /\ other' = NoOther
    /\ UNCHANGED <<fra, cache, calculated_, market>>

CallFixingDate == Inspected("fixingDate", Real(RInt(fixingDate)))
CallIsExpired == Inspected("isExpired", Real(IF isExpired THEN One ELSE Zero))

\* a change of the market, and the notification it sends
Notified(source) ==
    /\ ~Failed
    /\ lastOp' = source
    /\ ok' = TRUE
    /\ ret' = NoRet
    /\ calls' = 0
    /\ ran' = FALSE
    /\ calculated_' = update(source)
    /\ args' = NoArgs
    /\ UNCHANGED <<fra, cache>>

SetEvaluationDate ==
    \E d \in Dates :
        /\ evaluationDate' = d
        /\ UNCHANGED <<discountCurve, forwardingCurve, fixings>>
        /\ other' = NoOther
        /\ Notified("evaluationDate")

\* the answers of the FRA before the relink are kept for the next query
RelinkDiscountCurve ==
    \E h \in Handles \ {discountCurve} :
        /\ discountCurve' = h
        /\ UNCHANGED <<evaluationDate, forwardingCurve, fixings>>
        /\ other' = IF fra.built THEN Answers("discountCurve", amount, forwardRate, NPV)
                     ELSE NoOther
        /\ Notified("discountCurve")

RelinkForwardingCurve ==
    \E h \in Handles \ {forwardingCurve} :
        /\ fra.built => fra.index_
        /\ forwardingCurve' = h
        /\ UNCHANGED <<evaluationDate, discountCurve, fixings>>
        /\ other' = NoOther
        /\ Notified("index")

\* fixings are published in date order, up to the evaluation date
AddFixing ==
    \E d \in FixingDates \ fixings :
        /\ fra.built => fra.index_
        /\ d <= evaluationDate
        /\ \A e \in FixingDates : e < d => e \in fixings
        /\ fixings' = fixings \cup {d}
        /\ UNCHANGED <<evaluationDate, discountCurve, forwardingCurve>>
        /\ other' = NoOther
        /\ Notified("index")

Next ==
    \/ ConstructWithIndex
    \/ ConstructWithIndexTenor
    \/ ConstructWithCurve
    \/ ConstructCounterparty
    \/ CallAmount
    \/ CallForwardRate
    \/ CallNPV
    \/ CallFixingDate
    \/ CallIsExpired
    \/ SetEvaluationDate
    \/ RelinkDiscountCurve
    \/ RelinkForwardingCurve
    \/ AddFixing

Spec == Init /\ [][Next]_vars

(* ------------------------- what the claims use ------------------------ *)

Queries == {"amount", "forwardRate", "NPV"}
Notifications == {"evaluationDate", "discountCurve", "index"}

\* valueDate has occurred relative to the evaluation date
Expired == fra.built /\ fra.valueDate_ <= evaluationDate

\* (P(v) / P(m) - 1) / tau on curve c with the day counter actual/basis
ParRate(c, basis) ==
    LET Pv  == discount(c, fra.valueDate_)
        Pm  == discount(c, fra.maturityDate_)
        tau == <<fra.maturityDate_ - fra.valueDate_, basis>>
    IN  RDiv(RSub(RDiv(Pv, Pm), One), tau)

\* the forward rate of the three branches, from the market as it is now
ExpectedForwardRate ==
    IF fra.index_ /\ fra.useIndexedCoupon_
    THEN [val |-> IndexRate(IndexFixingDate(fra.valueDate_)), dc |-> IndexBasis]
    ELSE IF fra.index_
    THEN [val |-> ParRate(forwardingCurve, IndexBasis), dc |-> IndexBasis]
    ELSE [val |-> ParRate(discountCurve, CurveBasis), dc |-> CurveBasis]

\* whether the market holds what the selected branch reads
RateAvailable ==
    IF fra.index_ /\ fra.useIndexedCoupon_ THEN IndexFixingDate(fra.valueDate_) \in fixings
    ELSE IF fra.index_ THEN forwardingCurve # Empty
    ELSE discountCurve # Empty

\* notionalAmount * sign * (F - K) * T / (1 + F*T) for the InterestRate f
AmountFor(f) ==
    LET N == RInt(fra.notionalAmount_)
        sign == IF fra.fraType_ = "Long" THEN One ELSE RInt(-1)
        F == f.val
        K == fra.strikeForwardRate_.rate
        T == <<fra.maturityDate_ - fra.valueDate_, f.dc>>
    IN  RDiv(RMul(RMul(RMul(N, sign), RSub(F, K)), T), RAdd(One, RMul(F, T)))

\* the curve NPV discounts with: the discount curve, else the forwarding curve
DiscountingCurve == IF discountCurve # Empty THEN discountCurve ELSE forwardingCurve

\* what a query returns when computed from the market as it is now
FreshResult(q) ==
    IF q = "forwardRate" THEN ExpectedForwardRate
    ELSE IF q = "amount" THEN Real(AmountFor(ExpectedForwardRate))
    ELSE IF Expired THEN Real(Zero)
    ELSE Real(RMul(AmountFor(ExpectedForwardRate),
                   discount(DiscountingCurve, fra.valueDate_)))

\* what a query returns from the cached outputs
CachedResult(q) ==
    IF q = "forwardRate" THEN [val |-> forwardRate_.rate, dc |-> forwardRate_.dc]
    ELSE IF q = "amount" THEN Real(amount_)
    ELSE Real(NPV_)

\* the maturity date the constructor called with args stores
AdjustedMaturity ==
    Adjust(IF args.ctor = "ctorCurve" THEN CurveHolidays ELSE IndexHolidays,
           args.maturityDate, args.convention)

(* -------------------------------- claims ------------------------------ *)

\* C1: after a change notification from the discount curve, the index or the
\* evaluation date, the next successful amount(), forwardRate() or NPV() returns
\* the value computed from the market data current at that call.
C1_Invalidation ==
    [][(lastOp \in Notifications /\ fra.built /\ lastOp' \in Queries /\ ok')
          => ret' = FreshResult(lastOp')]_vars

\* C2: a query that follows a successful query with no notification in between
\* succeeds, runs no calculation, makes no discount() or fixing() call, leaves the
\* cached outputs alone and returns what the cache held, live or expired.
C2_Idempotence ==
    [][(lastOp \in Queries /\ ok /\ lastOp' \in Queries)
          => /\ ok' /\ calls' = 0 /\ ~ran'
             /\ cache' = cache
             /\ ret' = CachedResult(lastOp')
             /\ (lastOp' = lastOp => ret' = ret)]_vars

\* a cache hit on the expired path
C2_Witness == lastOp \in Queries /\ ok /\ ~ran /\ Expired

\* C3: whenever valueDate has occurred, a successful NPV() returns 0 whatever the
\* curves hold, and a successful forwardRate() returns the rate of the three-branch
\* logic on the current market data.
C3_Expiry ==
    Expired =>
        /\ (NPV.c.ok => NPV.ret = Real(Zero))
        /\ (forwardRate.c.ok => forwardRate.ret = ExpectedForwardRate)
        /\ (lastOp = "NPV" /\ ok => ret = Real(Zero))
        /\ (lastOp = "forwardRate" /\ ok => ret = ExpectedForwardRate)

\* an expired FRA with a discounting curve was asked for its forward rate, and
\* the rate is not zero
C3_Witness ==
    /\ Expired /\ lastOp = "forwardRate" /\ ok /\ ran
    /\ DiscountingCurve # Empty /\ ret.val # Zero /\ NPV.ret = Real(Zero)

\* C4: the value amount() returns is notionalAmount * sign * (F - K) * T / (1 + F*T)
\* for the forward rate F that forwardRate() returns in the same state.
C4_AccessorConsistency ==
    (lastOp = "amount" /\ ok) => ret = Real(AmountFor(forwardRate.ret))

\* C5: a query whose calculation fails changes none of the cached outputs.
C5_FailureAtomicity ==
    [][(lastOp' \in Queries /\ ~ok') => cache' = cache]_vars

\* C6: a failed query returns nothing and leaves the cache dirty; a query on a
\* dirty cache always runs the calculation, and it succeeds exactly when the market
\* holds what the calculation reads, with or without a notification since the failure.
C6_Retry ==
    [][(lastOp' \in Queries)
          => /\ ~ok' => (~calculated_' /\ ret' = NoRet)
             /\ ~calculated_ =>
                   /\ ran'
                   /\ ok' <=> (RateAvailable /\ (Expired \/ DiscountingCurve # Empty))]_vars

\* a query failed and ran the calculation, on a cache a failed query left dirty
C6_Witness == lastOp \in Queries /\ ~ok /\ ran /\ ~calculated_ /\ ~RateAvailable

\* C7: a successful forwardRate() returns the index fixing at fixingDate() when
\* there is an index and useIndexedCoupon, the par rate of the index's forwarding
\* curve and day counter when there is an index and not useIndexedCoupon, and the
\* par rate of discountCurve and its day counter when there is no index.
C7_BranchSelection ==
    /\ (lastOp = "forwardRate" /\ ok) => ret = ExpectedForwardRate
    /\ (fra.built /\ forwardRate.c.ok) => forwardRate.ret = ExpectedForwardRate

\* the par-coupon branch ran with a discount curve other than the forwarding curve
C7_Witness ==
    /\ lastOp = "forwardRate" /\ ok /\ ran
    /\ fra.index_ /\ ~fra.useIndexedCoupon_
    /\ discountCurve # Empty /\ discountCurve # forwardingCurve

\* C8: on the live path a successful NPV() returns amount() times D(valueDate), D
\* being discountCurve when it is not empty and the index's forwarding curve
\* otherwise, both computed from the market as it is at the query.
C8_NPVDiscounting ==
    (lastOp = "NPV" /\ ok /\ ~Expired)
        => /\ ret = Real(RMul(amount.ret.val, discount(DiscountingCurve, fra.valueDate_)))
           /\ amount.ret = Real(AmountFor(ExpectedForwardRate))

\* NPV() discounted a non-zero amount with the forwarding curve, the discount
\* curve being empty
C8_Witness ==
    /\ lastOp = "NPV" /\ ok /\ ran /\ ~Expired
    /\ discountCurve = Empty /\ ret.val # Zero

\* C9 as stated: a constructor call with no resolvable discounting curve fails, and
\* no FRA exists whose discounting curve is unresolvable at construction.
C9_Original ==
    lastOp \in Ctors =>
        ((IF lastOp = "ctorCurve" THEN discountCurve = Empty
          ELSE discountCurve = Empty /\ forwardingCurve = Empty) => ~ok)

\* C9 amended: the curve constructor fails on an empty discount curve; the index
\* constructors succeed or fail on the notional and the dates alone, whatever the
\* curves are; a query on a live FRA with no discounting curve fails.
C9_Amended ==
    /\ (lastOp = "ctorCurve" /\ discountCurve = Empty) => ~ok
    /\ (lastOp \in {"ctorIndex", "ctorIndexTenor"})
          => (ok <=> (args.notionalAmount > 0 /\ args.valueDate < AdjustedMaturity))
    /\ (lastOp \in Queries /\ ~Expired /\ DiscountingCurve = Empty) => ~ok

\* an index constructor built an FRA with both curves empty
C9_Witness ==
    /\ lastOp \in {"ctorIndex", "ctorIndexTenor"} /\ ok
    /\ discountCurve = Empty /\ forwardingCurve = Empty

\* C10: a constructor call whose adjusted maturity date is not after valueDate
\* fails; the stored maturity date is the adjusted one and is after valueDate.
C10_DateOrder ==
    /\ (lastOp \in Ctors /\ AdjustedMaturity <= args.valueDate) => ~ok
    /\ (lastOp \in Ctors /\ ok) => fra.maturityDate_ = AdjustedMaturity
    /\ fra.built => fra.valueDate_ < fra.maturityDate_

\* a call failed on the adjusted date alone: the date passed in was after valueDate
C10_Witness ==
    /\ lastOp \in Ctors /\ ~ok
    /\ args.notionalAmount > 0 /\ args.valueDate < args.maturityDate
    /\ AdjustedMaturity <= args.valueDate
    /\ (lastOp = "ctorCurve" => discountCurve # Empty)

\* C11: a constructor call with notionalAmount <= 0 fails, on each of the three
\* constructors and whatever the dates and the curves are; the notional of a
\* constructed FRA is positive.
C11_Notional ==
    /\ (lastOp \in Ctors /\ args.notionalAmount <= 0) => ~ok
    /\ fra.built => fra.notionalAmount_ > 0

\* a call failed on the notional alone: the dates were in order and the curve
\* constructor had a discount curve to read
C11_Witness ==
    /\ lastOp \in Ctors /\ ~ok
    /\ args.notionalAmount = 0 /\ args.valueDate < AdjustedMaturity
    /\ (lastOp = "ctorCurve" => discountCurve # Empty)

\* the negation of a Real
RNeg(a) == RMul(a, RInt(-1))

\* C12: of two FRAs that differ only in position and see the same market, each
\* query succeeds on one exactly when it succeeds on the other, forwardRate() is the
\* same, and amount() and NPV() of the one are the negation of those of the other.
C12_Antisymmetry ==
    [][(other.run = "counterparty" /\ lastOp' \in Queries)
          => /\ ok' = other[lastOp'].ok
             /\ ok' => ret' = IF lastOp' = "forwardRate" THEN other[lastOp'].ret
                               ELSE Real(RNeg(other[lastOp'].ret.val))]_vars

\* C13: for an FRA with an index and useIndexedCoupon false, forwardRate() and
\* amount() after a relink of discountCurve fail or succeed as before the relink
\* and return the same values, whatever the two discount curves are.
C13_RateCurveSeparation ==
    [][(/\ other.run = "discountCurve" /\ fra.index_ /\ ~fra.useIndexedCoupon_
        /\ lastOp' \in {"forwardRate", "amount"})
          => ok' = other[lastOp'].ok /\ ret' = other[lastOp'].ret]_vars

\* a live FRA with a non-zero amount had its discount curve relinked from a curve
\* that is not the forwarding curve to another curve, and its NPV changed
C13_Witness ==
    /\ other.run = "discountCurve" /\ fra.index_ /\ ~fra.useIndexedCoupon_
    /\ discountCurve # Empty /\ forwardingCurve # Empty /\ ~Expired
    /\ other.amount.ok /\ other.amount.ret.val # Zero
    /\ other.NPV.ok /\ NPV.c.ok /\ NPV.ret # other.NPV.ret
    /\ other.NPV.ret # Real(RMul(other.amount.ret.val,
                                 discount(forwardingCurve, fra.valueDate_)))

\* C14: a notification runs no calculation, makes no discount() or fixing() call,
\* leaves the cached outputs as they are and the cache dirty; the query that
\* follows any sequence of notifications runs the calculation, once: it is the
\* only step that does, and the cache is valid after it unless it failed.
C14_PullBased ==
    [][/\ (lastOp' \in Notifications)
            => (~ran' /\ calls' = 0 /\ cache' = cache /\ (fra.built => ~calculated_'))
       /\ (lastOp \in Notifications /\ fra.built /\ lastOp' \in Queries)
            => (ran' /\ calculated_' = ok')
       /\ ran' => (lastOp' \in Queries /\ ~calculated_)]_vars

\* a notification reached an FRA whose cache had been computed, and the cached
\* forward rate is no longer the rate of the market
C14_Witness ==
    /\ lastOp \in Notifications /\ fra.built /\ ~calculated_ /\ ~ran
    /\ forwardRate_ # NoRate /\ RateAvailable
    /\ CachedResult("forwardRate") # ExpectedForwardRate

\* the accessors
Accessors == Queries \cup {"fixingDate", "isExpired"}

\* C15: amount(), forwardRate(), NPV(), fixingDate() and isExpired() leave the
\* contract terms, the curve handles, the fixings and the evaluation date as they
\* are; fixingDate() and isExpired() also leave the cache-validity flag and the
\* cached forwardRate, amount and NPV as they are, and run no calculation.
C15_Frame ==
    [][/\ (lastOp' \in Accessors) => (fra' = fra /\ market' = market)
       /\ (lastOp' \in {"fixingDate", "isExpired"})
            => (calculated_' = calculated_ /\ cache' = cache /\ ~ran' /\ calls' = 0)]_vars

\* fixingDate() or isExpired() was called on a dirty cache that a calculation
\* would have filled, and left it dirty
C15_Witness ==
    /\ lastOp \in {"fixingDate", "isExpired"} /\ fra.built /\ ~calculated_
    /\ forwardRate_ = NoRate /\ calculate.ok

\* C16: after a notification of the evaluation date, a successful NPV() returns 0
\* when valueDate has occurred at the new date and amount * discount(valueDate) on
\* the current market when it has not, whatever the calculation before returned:
\* an FRA that was expired is live again once the date is before valueDate.
C16_ExpiryRedecided ==
    [][(lastOp = "evaluationDate" /\ fra.built /\ lastOp' = "NPV" /\ ok')
          => /\ ran'
             /\ ret' = IF Expired THEN Real(Zero)
                       ELSE Real(RMul(AmountFor(ExpectedForwardRate),
                                      discount(DiscountingCurve, fra.valueDate_)))]_vars

\* the last calculation ran on the expired path (NPV_ is 0 and amount_ is not), the
\* evaluation date was then moved back before valueDate, and NPV() is not 0
C16_Witness ==
    /\ lastOp = "evaluationDate" /\ fra.built /\ ~Expired /\ ~calculated_
    /\ NPV_ = Zero /\ amount_ # Zero /\ forwardRate_ # NoRate
    /\ NPV.c.ok /\ NPV.ret.val # Zero

\* C17: on an expired FRA a NPV() that runs the calculation succeeds exactly when
\* the market holds what the selected forward-rate branch reads, whether or not
\* there is a curve to discount with, and it returns 0 when it succeeds.
C17_ExpiredInputs ==
    [][(lastOp' = "NPV" /\ Expired /\ ~calculated_)
          => /\ ok' <=> RateAvailable
             /\ ok' => ret' = Real(Zero)
             /\ ~ok' => ret' = NoRet]_vars

\* NPV() returned 0 on an expired FRA with no curve to discount with
C17_Witness ==
    /\ lastOp = "NPV" /\ ok /\ ran /\ Expired /\ DiscountingCurve = Empty
    /\ ret = Real(Zero)

\* the n-th business day of calendar cal before date d, n > 0
BusinessDayBefore(cal, d, n) ==
    CHOOSE e \in (d - 2 * n - 2)..(d - 1) :
        e \notin cal /\ Cardinality({x \in e..(d - 1) : x \notin cal}) = n

\* the fixing date of the contract terms: the index's rule for valueDate, else
\* valueDate moved back by fixingDays business days (adjusted when fixingDays is 0)
ExpectedFixingDate ==
    IF fra.index_ THEN IndexFixingDate(fra.valueDate_)
    ELSE IF fra.fixingDays_ = 0
    THEN Adjust(fra.calendar_, fra.valueDate_, fra.businessDayConvention_)
    ELSE BusinessDayBefore(fra.calendar_, fra.valueDate_, fra.fixingDays_)

\* C18: fixingDate() returns the index's fixing date for valueDate when there is
\* an index, and otherwise valueDate moved back by fixingDays business days under
\* the FRA's calendar and convention; no step that leaves the contract terms as
\* they are changes it, whatever it does to the cache or the evaluation date.
C18_FixingDate ==
    [][/\ (lastOp' = "fixingDate") => ret' = Real(RInt(ExpectedFixingDate))
       /\ (fra.built /\ fra' = fra) => fixingDate' = fixingDate]_vars

\* fixingDate() of an FRA without index returned the business day before valueDate,
\* on a valid cache and after valueDate had occurred
C18_Witness ==
    /\ lastOp = "fixingDate" /\ ~fra.index_ /\ fra.fixingDays_ = 1
    /\ ret = Real(RInt(fra.valueDate_ - 1)) /\ calculated_ /\ Expired

====
